---- MODULE Spec2Model ----
(***************************************************************************)
(* Model of life_analysis_app3.py, a Streamlit script.  Streamlit keeps    *)
(* the widget values in st.session_state and runs the whole script, top to *)
(* bottom, once when the page is loaded and once again after every widget  *)
(* interaction.  One action of the model is one such script run.           *)
(*                                                                         *)
(* Numbers.  The script computes with Python floats.  Here a float is an   *)
(* exact rational <<num, den>> in lowest terms with den > 0, so 8.5 is     *)
(* <<17, 2>>.  Every widget value is a multiple of 0.25 and sums, products *)
(* with integers and 24 - x of such values are exact in binary floating    *)
(* point too; the divisions of lines 110, 111 and 143 are rounded by the   *)
(* hardware in the last bit and are exact here.  The two differ only in    *)
(* the text of a cell whose exact value sits on a rounding boundary: the   *)
(* percentage text of line 135 at an exact tie (28.75 is printed from      *)
(* 28.749999999999996), and int(years * 12) of line 136 for 0.25 h at a    *)
(* lifespan of 56 (6.999999999999999 gives 6, the exact value is 7).       *)
(***************************************************************************)
EXTENDS Integers, Sequences, FiniteSets, TLC

VARIABLES
    DEFAULTS,        \* the module-level dict of lines 5-19
    session_state,   \* st.session_state: widget key -> value
    screen,          \* what the latest script run rendered
    locals,          \* the script's variables as the latest run left them
    lastOp,          \* what triggered the latest script run
    interactions     \* number of widget interactions so far

vars == <<DEFAULTS, session_state, screen, locals, lastOp, interactions>>

\* ------------------------------------------------------------------ bounds
\* Widget interactions in one session.
MaxInteractions == 2
\* A slider is dragged to one of its first MaxSliderStep + 1 positions or to its last.
MaxSliderStep == 1
\* The lifespan slider is dragged to its minimum or to one of the last
\* MaxLifespanBack + 1 positions.
MaxLifespanBack == 4

\* ------------------------------------------------------- float arithmetic
Abs(x) == IF x < 0 THEN -x ELSE x

RECURSIVE GCD(_, _)
GCD(a, b) == IF b = 0 THEN a ELSE GCD(b, a % b)

\* n / d in lowest terms, d # 0.
Rat(n, d) ==
    LET s == IF d < 0 THEN -1 ELSE 1
        g == GCD(Abs(n), Abs(d))
    IN  <<(s * n) \div g, (s * d) \div g>>

Int2Rat(i) == <<i, 1>>
RatAdd(a, b) == Rat(a[1] * b[2] + b[1] * a[2], a[2] * b[2])
RatSub(a, b) == Rat(a[1] * b[2] - b[1] * a[2], a[2] * b[2])
RatMul(a, b) == Rat(a[1] * b[1], a[2] * b[2])
\* b # 0; the caller raises ZeroDivisionError otherwise.
RatDiv(a, b) == Rat(a[1] * b[2], a[2] * b[1])
RatLe(a, b) == a[1] * b[2] <= b[1] * a[2]
RatLt(a, b) == a[1] * b[2] < b[1] * a[2]
RatIsZero(a) == a[1] = 0
RatFloor(a) == a[1] \div a[2]

\* int(x): truncation toward zero.
PyInt(a) == IF a[1] >= 0 THEN a[1] \div a[2] ELSE -((-a[1]) \div a[2])

RECURSIVE Pow10(_)
Pow10(p) == IF p = 0 THEN 1 ELSE 10 * Pow10(p - 1)

\* f"{x:.<places>f}": x rounded to `places` decimals, ties to even; the text
\* is held as the integer number of units of 10^-places (27.3 is 273).
Format(x, places) ==
    LET t == RatMul(x, Int2Rat(Pow10(places)))
        f == RatFloor(t)
        r == RatSub(t, Int2Rat(f))
        half == Rat(1, 2)
    IN  IF RatLt(half, r) \/ (r = half /\ f % 2 = 1) THEN f + 1 ELSE f

\* ------------------------------------------------------------ the tables
DefaultValues ==
    [ lifespan    |-> 77,
      sleep       |-> Rat(85, 10),
      work        |-> Rat(75, 10),
      commute     |-> Rat(5, 10),
      chores      |-> Rat(15, 10),
      meals       |-> Rat(15, 10),
      leisure     |-> Rat(20, 10),
      free_self   |-> Rat(10, 10),
      care_others |-> Rat(25, 100),
      education   |-> Rat(25, 100),
      religion    |-> Rat(25, 100),
      shopping    |-> Rat(25, 100),
      misc        |-> Rat(25, 100) ]

categories ==
    << [category |-> "Sleeping", key |-> "sleep"],
       [category |-> "Working", key |-> "work"],
       [category |-> "Commuting", key |-> "commute"],
       [category |-> "Household Chores", key |-> "chores"],
       [category |-> "Eating and Drinking", key |-> "meals"],
       [category |-> "Leisure", key |-> "leisure"],
       [category |-> "Free SELF Time", key |-> "free_self"],
       [category |-> "Caring for Others", key |-> "care_others"],
       [category |-> "Education", key |-> "education"],
       [category |-> "Religious and Civic Activities", key |-> "religion"],
       [category |-> "Shopping/Errands", key |-> "shopping"],
       [category |-> "Miscellaneous Activities", key |-> "misc"] >>

ActivityKeys == {categories[i].key : i \in 1..Len(categories)}

\* The categories line 76 gives a dropdown ("Religion" names no category).
DropdownCategories ==
    {"Shopping/Errands", "Education", "Religion", "Miscellaneous Activities"}

UsesSelectbox(i) == categories[i].category \in DropdownCategories

SelectboxOptions == <<Int2Rat(0), Rat(25, 100), Rat(5, 10), Rat(75, 100), Rat(10, 10)>>

\* index=int(DEFAULTS[key] / 0.25), zero-based.
SelectboxDefault(key) ==
    SelectboxOptions[PyInt(RatDiv(DEFAULTS[key], Rat(25, 100))) + 1]

LIFESPAN_MIN == 50
LIFESPAN_MAX == 100
LIFESPAN_STEP == 1
SLIDER_MIN == 0
SLIDER_MAX == 24
SliderStep == Rat(25, 100)
HOURS_PER_DAY == 24
DAYS_PER_YEAR == 365

\* --------------------------------------------------- the script's widgets
Reverse(s) == [i \in 1..Len(s) |-> s[Len(s) + 1 - i]]

\* Mutant: the reset loop skips the lifespan.
ResetSession_ActivitiesOnly(ss) ==
    [k \in (DOMAIN ss) \cup (DOMAIN DEFAULTS) |->
        IF k \in DOMAIN DEFAULTS /\ k # "lifespan" THEN DEFAULTS[k] ELSE ss[k]]

\* Lines 33-35: the button's branch copies every entry of DEFAULTS.
ResetSession(ss) ==
    [k \in (DOMAIN ss) \cup (DOMAIN DEFAULTS) |->
        IF k \in DOMAIN DEFAULTS THEN DEFAULTS[k] ELSE ss[k]]

\* Mutant: a slider step of 0.1.
SliderValue_TenthStep(k) == RatAdd(Int2Rat(SLIDER_MIN), RatMul(Int2Rat(k), Rat(1, 10)))

\* The value of slider position k (0.0 + k * 0.25).
SliderValue(k) == RatAdd(Int2Rat(SLIDER_MIN), RatMul(Int2Rat(k), SliderStep))
SliderPositions == PyInt(RatDiv(Int2Rat(SLIDER_MAX - SLIDER_MIN), SliderStep))

LifespanValue(k) == LIFESPAN_MIN + k * LIFESPAN_STEP
LifespanPositions == (LIFESPAN_MAX - LIFESPAN_MIN) \div LIFESPAN_STEP

\* Lines 42-49: the lifespan slider takes the session's value, DEFAULTS' otherwise.
LifespanWidget(ss) ==
    IF "lifespan" \in DOMAIN ss THEN ss["lifespan"] ELSE DEFAULTS["lifespan"]

\* Lines 73-93: widget i takes the session's value for its key; without one a
\* dropdown takes options[index] and a slider takes DEFAULTS[key].
ActivityWidget(ss, i) ==
    LET key == categories[i].key
    IN  IF key \in DOMAIN ss THEN ss[key]
        ELSE IF UsesSelectbox(i) THEN SelectboxDefault(key)
        ELSE DEFAULTS[key]

\* The session state once every widget of the run is registered under its key.
Widgets(ss) ==
    [k \in {"lifespan"} \cup ActivityKeys |->
        IF k = "lifespan" THEN LifespanWidget(ss)
        ELSE ActivityWidget(ss, CHOOSE i \in 1..Len(categories) : categories[i].key = k)]

\* ------------------------------------------------------- the computation
\* The script's locals, each from the locals it reads.  A dict is a sequence
\* of [activity, value] in insertion order.
activity_inputs(ss) == [i \in 1..Len(categories) |-> ss[categories[i].key]]

RECURSIVE SumRat(_)
SumRat(s) == IF s = <<>> THEN Int2Rat(0) ELSE RatAdd(SumRat(Tail(s)), Head(s))

daily_hours(inputs) == SumRat(inputs)

\* Mutant: the subtraction the other way round.
remaining_hours_Swapped(daily) == RatSub(daily, Int2Rat(HOURS_PER_DAY))

remaining_hours(daily) == RatSub(Int2Rat(HOURS_PER_DAY), daily)

\* Mutant: the guard of line 106 dropped.
WithinBudget_NoGuard(daily) == TRUE

\* Line 106.
WithinBudget(daily) == RatLe(daily, Int2Rat(HOURS_PER_DAY))

\* Mutant: the whole day as the denominator.
total_hours_FullDay(daily, lifespan) ==
    RatMul(RatMul(Int2Rat(HOURS_PER_DAY), Int2Rat(DAYS_PER_YEAR)), Int2Rat(lifespan))

total_hours(daily, lifespan) ==
    RatMul(RatMul(daily, Int2Rat(DAYS_PER_YEAR)), Int2Rat(lifespan))

activities(inputs) ==
    [i \in 1..Len(categories) |->
        [activity |-> categories[i].category, value |-> inputs[i]]]

hours_per_activity(acts, lifespan) ==
    [i \in 1..Len(acts) |->
        [activity |-> acts[i].activity,
         value |-> RatMul(RatMul(acts[i].value, Int2Rat(DAYS_PER_YEAR)),
                          Int2Rat(lifespan))]]

\* Mutant: a year of 365.25 days.
years_per_activity_LeapYear(hpa) ==
    [i \in 1..Len(hpa) |->
        [activity |-> hpa[i].activity,
         value |-> RatDiv(RatDiv(hpa[i].value, Int2Rat(HOURS_PER_DAY)), Rat(36525, 100))]]

years_per_activity(hpa) ==
    [i \in 1..Len(hpa) |->
        [activity |-> hpa[i].activity,
         value |-> RatDiv(RatDiv(hpa[i].value, Int2Rat(HOURS_PER_DAY)),
                          Int2Rat(DAYS_PER_YEAR))]]

\* Line 111 divides by total_hours: ZeroDivisionError when it is 0.
RaisesZeroDivision(total) == RatIsZero(total)

proportions(hpa, total) ==
    [i \in 1..Len(hpa) |->
        [activity |-> hpa[i].activity,
         value |-> RatMul(RatDiv(hpa[i].value, total), Int2Rat(100))]]

\* A stable ascending sort by value: x goes behind every element not above it.
InsertAscending(s, x) ==
    LET above == {j \in 1..Len(s) : RatLt(x.value, s[j].value)}
        at == IF above = {} THEN Len(s) + 1
              ELSE CHOOSE j \in above : \A m \in above : j <= m
    IN  SubSeq(s, 1, at - 1) \o <<x>> \o SubSeq(s, at, Len(s))

RECURSIVE StableSort(_)
StableSort(s) ==
    IF Len(s) = 0 THEN <<>>
    ELSE InsertAscending(StableSort(SubSeq(s, 1, Len(s) - 1)), s[Len(s)])

\* Mutant: an ascending sort, reversed.
SortedReverse_Unstable(s) == Reverse(StableSort(s))

\* sorted(items, key=value, reverse=True): CPython reverses the list, sorts it
\* stably and reverses it again, which keeps equal elements in their order.
SortedReverse(s) == Reverse(StableSort(Reverse(s)))

sorted_activities(props) == SortedReverse(props)

sorted_labels(sorted) == [i \in 1..Len(sorted) |-> sorted[i].activity]

sorted_percentages(sorted) == [i \in 1..Len(sorted) |-> sorted[i].value]

Lookup(dict, name) ==
    dict[CHOOSE i \in 1..Len(dict) : dict[i].activity = name].value

sorted_years(ypa, sorted) ==
    [i \in 1..Len(sorted) |-> Lookup(ypa, sorted[i].activity)]

\* Mutant: years only above 1.
TimeCell_StrictlyAbove(years) ==
    IF RatLt(Int2Rat(1), years)
    THEN [unit |-> "years", value |-> Format(years, 1)]
    ELSE [unit |-> "months", value |-> PyInt(RatMul(years, Int2Rat(12)))]

\* Line 136.
TimeCell(years) ==
    IF RatLe(Int2Rat(1), years)
    THEN [unit |-> "years", value |-> Format(years, 1)]
    ELSE [unit |-> "months", value |-> PyInt(RatMul(years, Int2Rat(12)))]

breakdown_table(labels, percentages, years) ==
    [i \in 1..Len(labels) |->
        [Activity |-> labels[i],
         Percentage |-> Format(percentages[i], 1),
         Time |-> TimeCell(years[i])]]

\* Lines 122-126: the bars, bottom to top.
Chart(labels, percentages, years) ==
    Reverse([i \in 1..Len(labels) |->
        [label |-> labels[i], width |-> percentages[i], text |-> Format(years[i], 1)]])

free_years(remaining, lifespan) ==
    RatDiv(RatDiv(RatMul(RatMul(remaining, Int2Rat(DAYS_PER_YEAR)), Int2Rat(lifespan)),
                  Int2Rat(HOURS_PER_DAY)),
           Int2Rat(DAYS_PER_YEAR))

\* ------------------------------------------------------------- the page
\* Nothing rendered, no local assigned.
Blank == [sections |-> {}, daily |-> 0, remaining |-> 0, table |-> <<>>, chart |-> <<>>, free |-> 0]
NoLocals == [assigned |-> {}, daily_hours |-> <<0, 1>>, remaining_hours |-> <<0, 1>>,
             years_per_activity |-> <<>>, proportions |-> <<>>,
             sorted_activities |-> <<>>, free_years |-> <<0, 1>>]

\* Lines 95-165 on the widget values ss: the locals the run assigns and what it
\* puts on the page.  An exception at line 111 ends the run there.
Run(ss) ==
    LET ls == ss["lifespan"]
        inputs == activity_inputs(ss)
        daily == daily_hours(inputs)
        remaining == remaining_hours(daily)
        total == total_hours(daily, ls)
        hpa == hours_per_activity(activities(inputs), ls)
        ypa == years_per_activity(hpa)
        props == proportions(hpa, total)
        sorted == sorted_activities(props)
        labels == sorted_labels(sorted)
        percentages == sorted_percentages(sorted)
        years == sorted_years(ypa, sorted)
        free == free_years(remaining, ls)
        top == [Blank EXCEPT !.daily = Format(daily, 2), !.remaining = Format(remaining, 2)]
        first == [NoLocals EXCEPT !.daily_hours = daily, !.remaining_hours = remaining]
    IN  IF ~WithinBudget(daily)
        THEN [locals |-> [first EXCEPT !.assigned = {"daily_hours", "remaining_hours"}],
              screen |-> [top EXCEPT !.sections = {"total", "footer"}]]
        ELSE IF RaisesZeroDivision(total)
        THEN [locals |-> [first EXCEPT !.assigned = {"daily_hours", "remaining_hours",
                                                     "years_per_activity"},
                                       !.years_per_activity = ypa],
              screen |-> [top EXCEPT !.sections = {"total", "ZeroDivisionError"}]]
        ELSE [locals |-> [first EXCEPT !.assigned = {"daily_hours", "remaining_hours",
                                                     "years_per_activity", "proportions",
                                                     "sorted_activities", "free_years"},
                                       !.years_per_activity = ypa,
                                       !.proportions = props,
                                       !.sorted_activities = sorted,
                                       !.free_years = free],
              screen |-> [top EXCEPT !.sections = {"total", "chart", "table", "free",
                                                   "insights", "footer"},
                                     !.chart = Chart(labels, percentages, years),
                                     !.table = breakdown_table(labels, percentages, years),
                                     !.free = Format(free, 1)]]

\* ------------------------------------------------------------ the actions
Init ==
    /\ DEFAULTS = DefaultValues
    /\ session_state = <<>>
    /\ screen = Blank
    /\ locals = NoLocals
    /\ lastOp = "none"
    /\ interactions = 0

\* One run of the script on the session state ss.
ScriptRun(ss, op) ==
    LET widgets == Widgets(ss)
        run == Run(widgets)
    IN  /\ DEFAULTS' = DefaultValues
        /\ session_state' = widgets
        /\ screen' = run.screen
        /\ locals' = run.locals
        /\ lastOp' = op

\* The page is opened: the first run, on the session as it stands.
Load ==
    /\ screen = Blank
    /\ ScriptRun(session_state, "load")
    /\ UNCHANGED interactions

Loaded == screen # Blank /\ interactions < MaxInteractions

LifespanPicks ==
    {LifespanValue(0)} \cup
    {LifespanValue(LifespanPositions - k) : k \in 0..MaxLifespanBack}

SliderPicks ==
    {SliderValue(k) : k \in 0..MaxSliderStep} \cup {SliderValue(SliderPositions)}

ChangeLifespan ==
    /\ Loaded
    /\ \E v \in LifespanPicks :
          /\ v # session_state["lifespan"]
          /\ ScriptRun([session_state EXCEPT !["lifespan"] = v], "lifespan")
    /\ interactions' = interactions + 1

ChangeSlider ==
    /\ Loaded
    /\ \E i \in 1..Len(categories), v \in SliderPicks :
          /\ ~UsesSelectbox(i)
          /\ v # session_state[categories[i].key]
          /\ ScriptRun([session_state EXCEPT ![categories[i].key] = v], "slider")
    /\ interactions' = interactions + 1

ChangeSelectbox ==
    /\ Loaded
    /\ \E i \in 1..Len(categories), o \in 1..Len(SelectboxOptions) :
          /\ UsesSelectbox(i)
          /\ SelectboxOptions[o] # session_state[categories[i].key]
          /\ ScriptRun([session_state EXCEPT ![categories[i].key] = SelectboxOptions[o]],
                       "selectbox")
    /\ interactions' = interactions + 1

ClickReset ==
    /\ Loaded
    /\ ScriptRun(ResetSession(session_state), "reset")
    /\ interactions' = interactions + 1

Next == Load \/ ChangeLifespan \/ ChangeSlider \/ ChangeSelectbox \/ ClickReset

Spec == Init /\ [][Next]_vars

\* The calculation alone: the script is run once on a session whose activity
\* inputs are each 0 or the default, at the shortest, the default or the
\* longest lifespan.
CalcSessions ==
    { [k \in DOMAIN DefaultValues |->
          IF k = "lifespan" THEN ls
          ELSE IF k \in zeros THEN SliderValue(0)
          ELSE DefaultValues[k]] :
      ls \in {LIFESPAN_MIN, LIFESPAN_MAX, DefaultValues["lifespan"]},
      zeros \in SUBSET ActivityKeys }

InitCalc ==
    /\ DEFAULTS = DefaultValues
    /\ session_state \in CalcSessions
    /\ screen = Blank
    /\ locals = NoLocals
    /\ lastOp = "none"
    /\ interactions = 0

NextCalc == Load

CalcSpec == InitCalc /\ [][NextCalc]_vars

\* ------------------------------------------------------------ the claims
\* What the claims measure the outputs against, taken from the session alone.
Ran == lastOp # "none"

SessionHours(i) == session_state[categories[i].key]

SessionTotal == SumRat([i \in 1..Len(categories) |-> SessionHours(i)])

\* hours * lifespan / 24
ExactYears(i) ==
    Rat(SessionHours(i)[1] * session_state["lifespan"], SessionHours(i)[2] * 24)

CatalogIndex(name) == CHOOSE i \in 1..Len(categories) : categories[i].category = name

Computed(name) == name \in locals.assigned

Shown(section) == section \in screen.sections

\* C1: whenever the inputs sum to more than 24 hours, the chart, the table and
\* the free-time summary are not rendered; the total and the remaining hours
\* (24 minus the total, negative) are.
C1_OverBudgetSuppressed ==
    (Ran /\ RatLt(Int2Rat(24), SessionTotal)) =>
        /\ ~Shown("chart") /\ ~Shown("table") /\ ~Shown("free")
        /\ screen.chart = <<>> /\ screen.table = <<>>
        /\ Shown("total")
        /\ screen.daily = Format(SessionTotal, 2)
        /\ screen.remaining = Format(RatSub(Int2Rat(24), SessionTotal), 2)
        /\ screen.remaining < 0

\* A total of 25 hours, shown with -1.00 remaining.
C1_Witness ==
    /\ Ran
    /\ SessionTotal = Int2Rat(25)
    /\ screen.daily = 2500
    /\ screen.remaining = -100
    /\ ~Shown("table")

\* C2: with every activity input zero the run ends without a division by zero,
\* every percentage is 0, remaining hours are 24 and free years equal the lifespan.
C2_ZeroTotalHandled ==
    (Ran /\ \A i \in 1..Len(categories) : SessionHours(i) = Int2Rat(0)) =>
        /\ ~Shown("ZeroDivisionError")
        /\ Computed("proportions")
        /\ Len(locals.proportions) = Len(categories)
        /\ \A i \in 1..Len(locals.proportions) : locals.proportions[i].value = Int2Rat(0)
        /\ locals.remaining_hours = Int2Rat(24)
        /\ Computed("free_years")
        /\ locals.free_years = Int2Rat(session_state["lifespan"])

\* C3: with lifespan 77 and every input at its default the total is 24.0, the
\* remaining hours and the free years are 0.0, and Sleeping is 35.42 % and
\* 27.27 years.
C3_DefaultsFillTheDay ==
    (Ran /\ session_state = DefaultValues) =>
        /\ locals.daily_hours = Int2Rat(24)
        /\ locals.remaining_hours = Int2Rat(0)
        /\ Computed("free_years") /\ locals.free_years = Int2Rat(0)
        /\ locals.proportions[1].activity = "Sleeping"
        /\ Format(locals.proportions[1].value, 2) = 3542
        /\ Format(locals.years_per_activity[1].value, 2) = 2727

\* C4: whenever the daily total is above 0 and at most 24, each percentage is
\* the activity's hours over the total times 100, and the twelve sum to 100.
C4_PercentagesSumTo100 ==
    (Ran /\ RatLt(Int2Rat(0), SessionTotal) /\ RatLe(SessionTotal, Int2Rat(24))) =>
        /\ Computed("proportions")
        /\ Len(locals.proportions) = Len(categories)
        /\ \A i \in 1..Len(categories) :
              locals.proportions[i].value =
                  RatMul(RatDiv(SessionHours(i), SessionTotal), Int2Rat(100))
        /\ SumRat([i \in 1..Len(categories) |-> locals.proportions[i].value]) = Int2Rat(100)

\* A total strictly between 0 and 24 other than the defaults', after a slider moved.
C4_Witness ==
    /\ lastOp = "slider"
    /\ RatLt(Int2Rat(0), SessionTotal)
    /\ RatLt(SessionTotal, Int2Rat(23))
    /\ Computed("proportions")

\* C5: a breakdown is non-increasing in percentage, and activities of equal
\* percentage keep their catalog order; it holds every activity once.
C5_SortedStable ==
    Computed("sorted_activities") =>
        LET sorted == locals.sorted_activities
        IN  /\ Len(sorted) = Len(categories)
            /\ \A i \in 1..Len(categories) :
                  \E j \in 1..Len(sorted) : sorted[j] = locals.proportions[i]
            /\ \A i, j \in 1..Len(sorted) :
                  i < j =>
                     /\ RatLe(sorted[j].value, sorted[i].value)
                     /\ sorted[i].value = sorted[j].value =>
                            CatalogIndex(sorted[i].activity) < CatalogIndex(sorted[j].activity)
            /\ \A i \in 1..Len(sorted) : screen.table[i].Activity = sorted[i].activity

\* A breakdown out of catalog order with a tie between activities that are not
\* neighbours in the catalog.
C5_Witness ==
    /\ Computed("sorted_activities")
    /\ locals.sorted_activities # locals.proportions
    /\ \E i, j \in 1..Len(categories) :
          /\ i + 1 < j
          /\ RatLt(Int2Rat(0), SessionHours(i))
          /\ SessionHours(i) = SessionHours(j)
          /\ SessionHours(i + 1) # SessionHours(i)

\* C6: a reset leaves the lifespan and every activity input at its DEFAULTS
\* value and the page is the one of the default inputs; DEFAULTS never changes.
C6_ResetRestoresDefaults ==
    /\ DEFAULTS = DefaultValues
    /\ lastOp = "reset" =>
          /\ \A k \in DOMAIN DefaultValues : session_state[k] = DefaultValues[k]
          /\ DOMAIN session_state = DOMAIN DefaultValues
          /\ screen = Run(DefaultValues).screen
          /\ locals = Run(DefaultValues).locals
          /\ screen.daily = 2375 /\ screen.remaining = 25 /\ screen.free = 8
          /\ screen.table[1] = [Activity |-> "Sleeping", Percentage |-> 358,
                                Time |-> [unit |-> "years", value |-> 273]]

\* A reset as the last of several interactions.
C6_Witness ==
    /\ lastOp = "reset"
    /\ interactions >= 2
    /\ session_state = DefaultValues

\* C7: whenever the per-activity years are computed, each is hours * lifespan / 24
\* and they sum to dailyHoursTotal * lifespan / 24.
C7_YearsSum ==
    Computed("years_per_activity") =>
        /\ Len(locals.years_per_activity) = Len(categories)
        /\ \A i \in 1..Len(categories) : locals.years_per_activity[i].value = ExactYears(i)
        /\ SumRat([i \in 1..Len(categories) |-> locals.years_per_activity[i].value])
              = Rat(SessionTotal[1] * session_state["lifespan"], SessionTotal[2] * 24)

\* Years computed at a lifespan other than the default, the inputs changed too.
C7_Witness ==
    /\ Computed("years_per_activity")
    /\ session_state["lifespan"] # DefaultValues["lifespan"]
    /\ SessionTotal # Int2Rat(0)
    /\ \E i \in 1..Len(categories) : SessionHours(i) # DefaultValues[categories[i].key]

\* C8: every activity input is a multiple of 0.25 in [0, 24] and the lifespan is
\* an integer in [50, 100].
C8_InputsInRange ==
    \A k \in DOMAIN session_state :
        IF k = "lifespan"
        THEN session_state[k] \in 50..100
        ELSE /\ RatMul(session_state[k], Int2Rat(4))[2] = 1
             /\ RatLe(Int2Rat(0), session_state[k])
             /\ RatLe(session_state[k], Int2Rat(24))

\* The inputs in range and their sum above 24.
C8_Witness ==
    /\ Ran
    /\ C8_InputsInRange
    /\ RatLt(Int2Rat(24), SessionTotal)
    /\ \E i \in 1..Len(categories) : SessionHours(i) = Int2Rat(24)

C10_FreeTimeNeverNegative ==
    LET remaining == RatSub(Int2Rat(24), SessionTotal)
    IN  /\ (Shown("free") \/ Computed("free_years")) =>
              /\ RatLe(Int2Rat(0), remaining)
              /\ locals.free_years =
                    Rat(remaining[1] * session_state["lifespan"], remaining[2] * 24)
              /\ RatLe(Int2Rat(0), locals.free_years)
              /\ RatLe(locals.free_years, Int2Rat(session_state["lifespan"]))
              /\ screen.free = Format(locals.free_years, 1)
              /\ screen.free >= 0
        /\ (Ran /\ RatLt(remaining, Int2Rat(0))) =>
              ~Shown("free") /\ ~Computed("free_years")

\* Free time shown with hours to spare.
C10_Witness ==
    /\ Shown("free")
    /\ RatLt(Int2Rat(1), RatSub(Int2Rat(24), SessionTotal))
    /\ screen.free > 0

====
